---- MODULE Spec2Model ----
(***************************************************************************)
(* Model of rulp's LP text parser (src/parser/impl_parser.rs).             *)
(*                                                                         *)
(* Strings are sequences of one-character strings.  The five regular       *)
(* expressions of Parser::new are modelled by matchers that follow the     *)
(* regex crate's leftmost-first search semantics.  A panic (unwrap/expect/ *)
(* panic!) is a result record with ok = FALSE and the kind of the failure. *)
(* An f64 is the exact rational the decimal literal denotes, [num, den]    *)
(* in lowest terms.                                                        *)
(***************************************************************************)
EXTENDS Integers, Sequences, FiniteSets, TLC

VARIABLES
    text,        \* lp_from_text / get_components: the document
    pc,          \* position in lp_from_text / get_components
    idx,         \* cursor of the loop pc names (1-based)
    components,  \* get_components: `components` (collected Vec<Component>)
    variables,   \* get_components: `variables`
    constraints, \* get_components: `constraints`
    objective,   \* get_components: `objective` (<<>> is None, <<o>> is Some(o))
    err,         \* the kind of the panic that aborted the call, "" if none
    calls,       \* the calls the Builder has received, in order
    parts,       \* function specifications: the input as written, part by part
    src,         \* function specifications: the input text
    out,         \* function specifications: the result
    fpc          \* function specifications: position

vars == <<text, pc, idx, components, variables, constraints, objective, err,
          calls, parts, src, out, fpc>>

(***************************************************************************)
(* Characters and strings                                                  *)
(***************************************************************************)
DigitSeq == <<"0", "1", "2", "3", "4", "5", "6", "7", "8", "9">>

DigitChars == {DigitSeq[i] : i \in 1..Len(DigitSeq)}

LetterChars ==
    {"a", "b", "c", "d", "e", "f", "g", "h", "i", "j", "k", "l", "m", "n",
     "o", "p", "q", "r", "s", "t", "u", "v", "w", "x", "y", "z"}

\* \w of the regex crate, restricted to ASCII
WordChars == LetterChars \cup DigitChars \cup {"_"}

\* \s of the regex crate and char::is_whitespace, restricted to ASCII
SpaceChars == {" ", "\n", "\t", "\r"}

StartsWithAt(s, p, k) ==
    /\ p >= 1
    /\ p + Len(k) - 1 <= Len(s)
    /\ SubSeq(s, p, p + Len(k) - 1) = k

\* str::contains
Contains(s, k) == \E p \in 1..(Len(s) + 1) : StartsWithAt(s, p, k)

\* first index >= p whose character is outside class C (Len(s)+1 if none)
RECURSIVE SpanEnd(_, _, _)
SpanEnd(s, p, C) ==
    IF p > Len(s) \/ s[p] \notin C THEN p ELSE SpanEnd(s, p + 1, C)

\* last index <= p whose character is outside class C (0 if none)
RECURSIVE SpanStart(_, _, _)
SpanStart(s, p, C) ==
    IF p < 1 \/ s[p] \notin C THEN p ELSE SpanStart(s, p - 1, C)

\* str::trim
Trim(s) ==
    LET b == SpanEnd(s, 1, SpaceChars)
        e == SpanStart(s, Len(s), SpaceChars)
    IN  IF b > e THEN <<>> ELSE SubSeq(s, b, e)

\* first index >= p holding character c (Len(s)+1 if none)
RECURSIVE IndexOf(_, _, _)
IndexOf(s, c, p) ==
    IF p > Len(s) \/ s[p] = c THEN p ELSE IndexOf(s, c, p + 1)

\* str::split(char): the segments between the separators, empty ones kept
RECURSIVE Split(_, _)
Split(s, c) ==
    LET e == IndexOf(s, c, 1)
    IN  IF e > Len(s) THEN <<s>>
        ELSE <<SubSeq(s, 1, e - 1)>> \o Split(SubSeq(s, e + 1, Len(s)), c)

\* first index >= p whose character is in class C (Len(s)+1 if none)
RECURSIVE FindIn(_, _, _)
FindIn(s, p, C) ==
    IF p > Len(s) \/ s[p] \in C THEN p ELSE FindIn(s, p + 1, C)

\* the least element of a non-empty set of integers
Least(S) == CHOOSE m \in S : \A n \in S : m <= n

(***************************************************************************)
(* f64                                                                     *)
(***************************************************************************)
RECURSIVE GCD(_, _)
GCD(a, b) == IF b = 0 THEN a ELSE GCD(b, a % b)

Abs(n) == IF n < 0 THEN -n ELSE n

Rat(n, d) ==
    LET g == GCD(Abs(n), d)
    IN  [num |-> n \div g, den |-> d \div g]

DigitVal(c) == (CHOOSE i \in 1..Len(DigitSeq) : DigitSeq[i] = c) - 1

RECURSIVE DigitsVal(_)
DigitsVal(s) ==
    IF s = <<>> THEN 0
    ELSE 10 * DigitsVal(SubSeq(s, 1, Len(s) - 1)) + DigitVal(s[Len(s)])

RECURSIVE Pow10(_)
Pow10(n) == IF n = 0 THEN 1 ELSE 10 * Pow10(n - 1)

\* str::parse::<f64> of a literal \d+\.?\d*
ParseF64(s) ==
    LET e == SpanEnd(s, 1, DigitChars)
        frac == IF e > Len(s) THEN <<>> ELSE SubSeq(s, e + 1, Len(s))
    IN  Rat(DigitsVal(SubSeq(s, 1, e - 1)) * Pow10(Len(frac)) + DigitsVal(frac),
            Pow10(Len(frac)))

\* f64 multiplication by the sign (1. or -1.)
MulSign(r, sign) == [num |-> r.num * sign, den |-> r.den]

(***************************************************************************)
(* Parser::new: the keywords and the regular expressions.  Each matcher    *)
(* walks the pattern left to right from an anchor; the positions it finds  *)
(* are handed on as parameters.  Every quantifier of the patterns is       *)
(* followed by something its class excludes (or by the end of the          *)
(* pattern), so the greedy walk is the one leftmost-first match at the     *)
(* anchor, and the search takes the leftmost anchor that matches.          *)
(***************************************************************************)
KwVar == <<"v", "a", "r">>

KwMinimize == <<"m", "i", "n", "i", "m", "i", "z", "e">>

KwMaximize == <<"m", "a", "x", "i", "m", "i", "z", "e">>

KwSubjectTo == <<"s", "u", "b", "j", "e", "c", "t", " ", "t", "o">>

RelationTokens == {<<"=", "=">>, <<"<", "=">>, <<">", "=">>}

RelationChars == {"=", ">", "<"}

NoMatch == [ok |-> FALSE]

\* whether character c stands at position p
CharAt(s, p, c) == p >= 1 /\ p <= Len(s) /\ s[p] = c

\* position after an optional c at p
AfterOptional(s, p, c) == IF CharAt(s, p, c) THEN p + 1 ELSE p

\* end of \.?\d* at d
FractionEnd(s, d) == SpanEnd(s, AfterOptional(s, d, "."), DigitChars)

\* end of \d+\.?\d* at b (b itself when no digit stands there)
NumberEnd(s, b) ==
    IF b <= Len(s) /\ s[b] \in DigitChars
    THEN FractionEnd(s, SpanEnd(s, b, DigitChars))
    ELSE b

\* var\s+(?P<name>\w+)\s*  with the blanks ending at w
DeclarationName(s, q, w) ==
    IF w > q /\ SpanEnd(s, w, WordChars) > w
    THEN [ok |-> TRUE, name |-> SubSeq(s, w, SpanEnd(s, w, WordChars) - 1)]
    ELSE NoMatch

\* var\s+(?P<name>\w+)\s*  anchored at p
DeclarationMatchAt(s, p) ==
    IF StartsWithAt(s, p, KwVar)
    THEN DeclarationName(s, p + Len(KwVar),
                         SpanEnd(s, p + Len(KwVar), SpaceChars))
    ELSE NoMatch

\* the leftmost anchor >= p at which the declaration pattern matches
RECURSIVE DeclarationSearch(_, _)
DeclarationSearch(s, p) ==
    IF p > Len(s) THEN NoMatch
    ELSE IF DeclarationMatchAt(s, p).ok THEN DeclarationMatchAt(s, p)
    ELSE DeclarationSearch(s, p + 1)

\* variable_declaration_regex.captures
variable_declaration_regex(s) == DeclarationSearch(s, 1)

\* ((?:\s*(?P<sign>-)?\s*)(?P<coeff>\d+\.?\d*)\s*\*\s*)?(?P<name>\w+)
\* anchored at p: a is where the sign may stand, b where the coefficient
\* starts, e where it ends, f where the star must stand.  The optional group
\* is tried first, and only with the group matched are sign and coeff
\* captured; with the group skipped the name starts at the anchor itself.
VariableCaptures(s, p, a, b, e, f) ==
    IF /\ e > b
       /\ CharAt(s, f, "*")
       /\ SpanEnd(s, SpanEnd(s, f + 1, SpaceChars), WordChars)
              > SpanEnd(s, f + 1, SpaceChars)
    THEN [ok |-> TRUE, sign |-> CharAt(s, a, "-"), hasCoeff |-> TRUE,
          coeff |-> SubSeq(s, b, e - 1),
          name |-> SubSeq(s, SpanEnd(s, f + 1, SpaceChars),
                          SpanEnd(s, SpanEnd(s, f + 1, SpaceChars),
                                  WordChars) - 1)]
    ELSE IF SpanEnd(s, p, WordChars) > p
    THEN [ok |-> TRUE, sign |-> FALSE, hasCoeff |-> FALSE, coeff |-> <<>>,
          name |-> SubSeq(s, p, SpanEnd(s, p, WordChars) - 1)]
    ELSE NoMatch

VariableCoeffEnd(s, p, a, b, e) ==
    VariableCaptures(s, p, a, b, e, SpanEnd(s, e, SpaceChars))

VariableCoeff(s, p, a, b) == VariableCoeffEnd(s, p, a, b, NumberEnd(s, b))

VariableSign(s, p, a) ==
    VariableCoeff(s, p, a, SpanEnd(s, AfterOptional(s, a, "-"), SpaceChars))

VariableMatchAt(s, p) == VariableSign(s, p, SpanEnd(s, p, SpaceChars))

\* the leftmost anchor >= p at which the variable pattern matches
RECURSIVE VariableSearch(_, _)
VariableSearch(s, p) ==
    IF p > Len(s) THEN NoMatch
    ELSE IF VariableMatchAt(s, p).ok THEN VariableMatchAt(s, p)
    ELSE VariableSearch(s, p + 1)

\* variable_regex.captures
variable_regex(s) == VariableSearch(s, 1)

\* (?P<type>minimize|maximize)\s+(?P<name>\w+)\s*:\s*(?P<equation>[^;]*)
\* with the keyword kw at the anchor, the name in w..e-1 and the colon due
\* at c
ObjectiveCaptures(s, kw, q, w, e, c) ==
    IF w > q /\ e > w /\ CharAt(s, c, ":")
    THEN [ok |-> TRUE, type |-> kw, name |-> SubSeq(s, w, e - 1),
          equation |-> SubSeq(s, SpanEnd(s, c + 1, SpaceChars),
                              IndexOf(s, ";", c + 1) - 1)]
    ELSE NoMatch

ObjectiveNameEnd(s, kw, q, w, e) ==
    ObjectiveCaptures(s, kw, q, w, e, SpanEnd(s, e, SpaceChars))

ObjectiveName(s, kw, q, w) ==
    ObjectiveNameEnd(s, kw, q, w, SpanEnd(s, w, WordChars))

ObjectiveKeyword(s, kw, q) == ObjectiveName(s, kw, q, SpanEnd(s, q, SpaceChars))

ObjectiveMatchAt(s, p) ==
    IF StartsWithAt(s, p, KwMinimize)
    THEN ObjectiveKeyword(s, KwMinimize, p + Len(KwMinimize))
    ELSE IF StartsWithAt(s, p, KwMaximize)
    THEN ObjectiveKeyword(s, KwMaximize, p + Len(KwMaximize))
    ELSE NoMatch

\* the leftmost anchor >= p at which the objective pattern matches
RECURSIVE ObjectiveSearch(_, _)
ObjectiveSearch(s, p) ==
    IF p > Len(s) THEN NoMatch
    ELSE IF ObjectiveMatchAt(s, p).ok THEN ObjectiveMatchAt(s, p)
    ELSE ObjectiveSearch(s, p + 1)

\* objective_regex.captures
objective_regex(s) == ObjectiveSearch(s, 1)

\* (?P<terms>[^=><]+?)\s*  between the colon at e and the type at v: \s* is
\* greedy and terms is lazy, so terms runs from the first non-blank t to the
\* last non-blank before the type, or is the last blank when all is blank
ConstraintTerms(s, v, t) ==
    IF t >= v THEN SubSeq(s, v - 1, v - 1)
    ELSE SubSeq(s, t, SpanStart(s, v - 1, SpaceChars))

\* subject to (?P<name>\w*):\s*(?P<terms>[^=><]+?)\s*(?P<type>==|<=|>=)\s*?
\* (?P<constant>\d+\.?\d*)\s*?  with the name in q..e-1, the colon due at e,
\* the type due at v and the constant due at k.  The type can only start at
\* the first of = > < after the colon.
ConstraintCaptures(s, q, e, v, k) ==
    IF /\ CharAt(s, e, ":")
       /\ v > e + 1
       /\ v + 1 <= Len(s)
       /\ SubSeq(s, v, v + 1) \in RelationTokens
       /\ NumberEnd(s, k) > k
    THEN [ok |-> TRUE,
          name |-> SubSeq(s, q, e - 1),
          terms |-> ConstraintTerms(s, v, SpanEnd(s, e + 1, SpaceChars)),
          type |-> SubSeq(s, v, v + 1),
          constant |-> SubSeq(s, k, NumberEnd(s, k) - 1)]
    ELSE NoMatch

ConstraintType(s, q, e, v) ==
    ConstraintCaptures(s, q, e, v, SpanEnd(s, v + 2, SpaceChars))

ConstraintName(s, q, e) ==
    ConstraintType(s, q, e, FindIn(s, e + 1, RelationChars))

ConstraintMatchAt(s, p) ==
    IF StartsWithAt(s, p, KwSubjectTo \o <<" ">>)
    THEN ConstraintName(s, p + Len(KwSubjectTo) + 1,
                        SpanEnd(s, p + Len(KwSubjectTo) + 1, WordChars))
    ELSE NoMatch

\* the leftmost anchor >= p at which the constraint pattern matches
RECURSIVE ConstraintSearch(_, _)
ConstraintSearch(s, p) ==
    IF p > Len(s) THEN NoMatch
    ELSE IF ConstraintMatchAt(s, p).ok THEN ConstraintMatchAt(s, p)
    ELSE ConstraintSearch(s, p + 1)

\* constraint_regex.captures
constraint_regex(s) == ConstraintSearch(s, 1)

(***************************************************************************)
(* The parsing functions.  A panic is [ok |-> FALSE, err |-> kind]:        *)
(*   "MalformedStatement"  panic!("Unknown line type ..")                  *)
(*   "UnmatchedPattern"    unwrap/expect on captures that are None         *)
(*   "MissingObjective"    expect("No objective function provided!")       *)
(***************************************************************************)
Panic(kind) == [ok |-> FALSE, err |-> kind]

F64(n) == [num |-> n, den |-> 1]

\* get_line_type with the comment marker looked for last instead of first
get_line_type_CommentLast(line) ==
    IF Contains(line, KwVar) THEN [ok |-> TRUE, type |-> "Variable"]
    ELSE IF Contains(line, KwMinimize) \/ Contains(line, KwMaximize)
    THEN [ok |-> TRUE, type |-> "Objective"]
    ELSE IF Contains(line, KwSubjectTo) THEN [ok |-> TRUE, type |-> "Constraint"]
    ELSE IF Contains(line, <<"#">>) THEN [ok |-> TRUE, type |-> "Comment"]
    ELSE Panic("MalformedStatement")

\* get_line_type with subject to looked for before var
get_line_type_ConstraintFirst(line) ==
    IF Contains(line, <<"#">>) THEN [ok |-> TRUE, type |-> "Comment"]
    ELSE IF Contains(line, KwSubjectTo) THEN [ok |-> TRUE, type |-> "Constraint"]
    ELSE IF Contains(line, KwVar) THEN [ok |-> TRUE, type |-> "Variable"]
    ELSE IF Contains(line, KwMinimize) \/ Contains(line, KwMaximize)
    THEN [ok |-> TRUE, type |-> "Objective"]
    ELSE Panic("MalformedStatement")

\* get_line_type that lets a statement without any marker pass as a comment
get_line_type_SkipUnknown(line) ==
    IF Contains(line, <<"#">>) THEN [ok |-> TRUE, type |-> "Comment"]
    ELSE IF Contains(line, KwVar) THEN [ok |-> TRUE, type |-> "Variable"]
    ELSE IF Contains(line, KwMinimize) \/ Contains(line, KwMaximize)
    THEN [ok |-> TRUE, type |-> "Objective"]
    ELSE IF Contains(line, KwSubjectTo) THEN [ok |-> TRUE, type |-> "Constraint"]
    ELSE [ok |-> TRUE, type |-> "Comment"]

\* Parser::get_line_type
get_line_type(line) ==
    IF Contains(line, <<"#">>) THEN [ok |-> TRUE, type |-> "Comment"]
    ELSE IF Contains(line, KwVar) THEN [ok |-> TRUE, type |-> "Variable"]
    ELSE IF Contains(line, KwMinimize) \/ Contains(line, KwMaximize)
    THEN [ok |-> TRUE, type |-> "Objective"]
    ELSE IF Contains(line, KwSubjectTo) THEN [ok |-> TRUE, type |-> "Constraint"]
    ELSE Panic("MalformedStatement")

\* parse_variable_declaration after captures()
DeclarationFromCaps(caps) ==
    IF ~caps.ok THEN Panic("UnmatchedPattern")
    ELSE [ok |-> TRUE, val |-> [name |-> caps.name, coefficient |-> F64(0)]]

\* Parser::parse_variable_declaration
parse_variable_declaration(data) ==
    DeclarationFromCaps(variable_declaration_regex(data))

\* parse_variable: `sign`
SignOf(caps) == IF caps.sign THEN -1 ELSE 1

\* parse_variable: `coefficient`
CoefficientOf(caps) == IF caps.hasCoeff THEN ParseF64(caps.coeff) ELSE F64(1)

\* parse_variable after captures()
VariableFromCaps(caps) ==
    IF ~caps.ok THEN Panic("UnmatchedPattern")
    ELSE [ok |-> TRUE,
          val |-> [name |-> caps.name,
                   coefficient |-> MulSign(CoefficientOf(caps), SignOf(caps))]]

\* Parser::parse_variable
parse_variable(data) == VariableFromCaps(variable_regex(data))

\* collect() of the parsed terms; the first term that panics aborts
CollectVariables(res) ==
    IF \E i \in 1..Len(res) : ~res[i].ok THEN Panic("UnmatchedPattern")
    ELSE [ok |-> TRUE, val |-> [i \in 1..Len(res) |-> res[i].val]]

\* data.split('+').map(|s| s.trim()).map(|var| self.parse_variable(var))
MapVariables(segs) == [i \in 1..Len(segs) |-> parse_variable(Trim(segs[i]))]

\* the entries whose name did not occur before
RECURSIVE DropRepeated(_)
DropRepeated(vs) ==
    IF Len(vs) = 0 THEN <<>>
    ELSE IF \E i \in 1..(Len(vs) - 1) : vs[i].name = vs[Len(vs)].name
    THEN DropRepeated(SubSeq(vs, 1, Len(vs) - 1))
    ELSE Append(DropRepeated(SubSeq(vs, 1, Len(vs) - 1)), vs[Len(vs)])

\* CollectVariables keeping one entry per name
CollectVariablesByName(res) ==
    IF \E i \in 1..Len(res) : ~res[i].ok THEN Panic("UnmatchedPattern")
    ELSE [ok |-> TRUE,
          val |-> DropRepeated([i \in 1..Len(res) |-> res[i].val])]

\* parse_objective_vars keeping one entry per name
parse_objective_vars_ByName(data) ==
    CollectVariablesByName(MapVariables(Split(data, "+")))

\* Parser::parse_objective_vars
parse_objective_vars(data) == CollectVariables(MapVariables(Split(data, "+")))

\* parse_constraint: `relation`
RelationOf(type) ==
    IF Contains(type, <<"<">>) THEN "LessThanOrEqual"
    ELSE IF Contains(type, <<">">>) THEN "GreaterThanOrEqual"
    ELSE "Equal"

\* parse_constraint once the terms are parsed
ConstraintFromVars(caps, vs) ==
    IF ~vs.ok THEN vs
    ELSE [ok |-> TRUE,
          val |-> [name |-> caps.name, variables |-> vs.val,
                   constant |-> ParseF64(caps.constant),
                   relation |-> RelationOf(caps.type)]]

\* parse_constraint after captures()
ConstraintFromCaps(caps) ==
    IF ~caps.ok THEN Panic("UnmatchedPattern")
    ELSE ConstraintFromVars(caps, parse_objective_vars(caps.terms))

\* Parser::parse_constraint
parse_constraint(data) == ConstraintFromCaps(constraint_regex(data))

\* parse_objective once the terms are parsed
ObjectiveFromVars(caps, vs) ==
    IF ~vs.ok THEN vs
    ELSE [ok |-> TRUE,
          val |-> [name |-> caps.name, variables |-> vs.val,
                   maximize |-> Contains(caps.type, KwMaximize)]]

\* parse_objective after captures()
ObjectiveFromCaps(caps) ==
    IF ~caps.ok THEN Panic("UnmatchedPattern")
    ELSE ObjectiveFromVars(caps, parse_objective_vars(caps.equation))

\* Parser::parse_objective
parse_objective(data) == ObjectiveFromCaps(objective_regex(data))

\* component_from_line: the arm of the match
ComponentOfType(type, line) ==
    CASE type = "Variable" -> parse_variable_declaration(line)
      [] type = "Constraint" -> parse_constraint(line)
      [] type = "Objective" -> parse_objective(line)
      [] type = "Comment" -> [ok |-> TRUE, val |-> <<>>]

\* component_from_line: the Component built from the arm's value
WrapComponent(type, parsed) ==
    IF ~parsed.ok THEN parsed
    ELSE [ok |-> TRUE, kind |-> type, val |-> parsed.val]

\* component_from_line after get_line_type()
ComponentFromType(lt, line) ==
    IF ~lt.ok THEN lt
    ELSE WrapComponent(lt.type, ComponentOfType(lt.type, line))

\* Parser::component_from_line
component_from_line(line) == ComponentFromType(get_line_type(line), line)

(***************************************************************************)
(* The documents checked: every sequence of at most MaxStmts statements of *)
(* StatementPool, each statement followed by the terminator.               *)
(***************************************************************************)
MaxStmts == 3

\* "var a"
StDeclA ==
    <<"v", "a", "r", " ", "a">>

\* "maximize o: 2*a + -1*b"
StObjMax ==
    <<"m", "a", "x", "i", "m", "i", "z", "e", " ", "o", ":", " ", "2", "*",
      "a", " ", "+", " ", "-", "1", "*", "b">>

\* "\nminimize p: a"
StObjMin ==
    <<"\n", "m", "i", "n", "i", "m", "i", "z", "e", " ", "p", ":", " ",
      "a">>

\* "subject to c1: a <= 1"
StCon1 ==
    <<"s", "u", "b", "j", "e", "c", "t", " ", "t", "o", " ", "c", "1", ":",
      " ", "a", " ", "<", "=", " ", "1">>

\* "\n\tsubject to c2: 2*a + b == 3 "
StCon2 ==
    <<"\n", "\t", "s", "u", "b", "j", "e", "c", "t", " ", "t", "o", " ",
      "c", "2", ":", " ", "2", "*", "a", " ", "+", " ", "b", " ", "=", "=",
      " ", "3", " ">>

\* "subject to variance_limit: a >= 2"
StConVarName ==
    <<"s", "u", "b", "j", "e", "c", "t", " ", "t", "o", " ", "v", "a", "r",
      "i", "a", "n", "c", "e", "_", "l", "i", "m", "i", "t", ":", " ", "a",
      " ", ">", "=", " ", "2">>

\* "# maximize o: a"
StComment ==
    <<"#", " ", "m", "a", "x", "i", "m", "i", "z", "e", " ", "o", ":", " ",
      "a">>

\* "foo"
StUnknown ==
    <<"f", "o", "o">>

\* " \n"
StBlank ==
    <<" ", "\n">>

\* "var"
StDeclNoName ==
    <<"v", "a", "r">>

\* "maximize var: a"
StObjVarName ==
    <<"m", "a", "x", "i", "m", "i", "z", "e", " ", "v", "a", "r", ":", " ",
      "a">>

\* "subject to maximize: a <= 1"
StConObjName ==
    <<"s", "u", "b", "j", "e", "c", "t", " ", "t", "o", " ", "m", "a", "x",
      "i", "m", "i", "z", "e", ":", " ", "a", " ", "<", "=", " ", "1">>

StatementPool ==
    {StDeclA, StObjMax, StObjMin, StCon1, StCon2, StConVarName,
     StComment, StUnknown, StBlank, StDeclNoName, StObjVarName, StConObjName}

RECURSIVE Concat(_)
Concat(ss) == IF ss = <<>> THEN <<>> ELSE Head(ss) \o Concat(Tail(ss))

Documents ==
    UNION {{Concat([i \in 1..n |-> ss[i] \o <<";">>]) :
              ss \in [1..n -> StatementPool]} : n \in 0..MaxStmts}

(***************************************************************************)
(* lp_from_text, with parse_components_from_text and get_components        *)
(* stepped through statement by statement.                                 *)
(*   pc = "collect"          the iterator chain feeding collect()          *)
(*        "bucket"           the for loop over `components`                 *)
(*        "finish"           building the Components value                 *)
(*        "add_variables", "add_constraints", "add_objective", "build"     *)
(*                           lp_from_text driving the Builder              *)
(*        "done"             lp_from_text returned                         *)
(*        "panicked"         the call was aborted by a panic               *)
(***************************************************************************)
Idle ==
    /\ parts = <<>>
    /\ src = <<>>
    /\ out = <<>>
    /\ fpc = "idle"

Init ==
    /\ text \in Documents
    /\ pc = "collect"
    /\ idx = 1
    /\ components = <<>>
    /\ variables = <<>>
    /\ constraints = <<>>
    /\ objective = <<>>
    /\ err = ""
    /\ calls = <<>>
    /\ Idle

\* a call the Builder receives
Call(op, arg) == [op |-> op, arg |-> arg]

\* text.split(';')
Segments(t) == Split(t, ";")

\* .filter(|component| *component != Component::Comment) and collect()
CollectComponent(c) ==
    IF ~c.ok
    THEN /\ pc' = "panicked"
         /\ err' = c.err
         /\ UNCHANGED <<idx, components>>
    ELSE /\ idx' = idx + 1
         /\ components' = IF c.kind = "Comment" THEN components
                          ELSE Append(components, c)
         /\ UNCHANGED <<pc, err>>

\* .filter(|line| line.len() > 0).map(|line| self.component_from_line(line))
CollectLine(line) ==
    IF Len(line) = 0
    THEN /\ idx' = idx + 1
         /\ UNCHANGED <<pc, components, err>>
    ELSE CollectComponent(component_from_line(line))

\* one item through split -> trim -> filter -> component_from_line -> filter
Collect ==
    /\ pc = "collect"
    /\ idx <= Len(Segments(text))
    /\ CollectLine(Trim(Segments(text)[idx]))
    /\ UNCHANGED <<text, variables, constraints, objective, calls,
                   parts, src, out, fpc>>

\* the iterator is exhausted: collect() returns
CollectEnd ==
    /\ pc = "collect"
    /\ idx > Len(Segments(text))
    /\ pc' = "bucket"
    /\ idx' = 1
    /\ UNCHANGED <<text, components, variables, constraints, objective, err,
                   calls, parts, src, out, fpc>>

\* variables.push(var)
PushVariable(vs, var) == Append(vs, var)

\* constraints.insert(0, con)
PushConstraintFront(cs, con) == <<con>> \o cs

\* constraints.push(con)
PushConstraint(cs, con) == Append(cs, con)

\* objective = objective.or(Some(obj)): the first objective is kept
SetObjectiveOnce(o, obj) == IF o = <<>> THEN <<obj>> ELSE o

\* objective = Some(obj)
SetObjective(o, obj) == <<obj>>

\* the match of the for loop's body
BucketComponent(c) ==
    /\ variables' = IF c.kind = "Variable"
                    THEN PushVariable(variables, c.val) ELSE variables
    /\ constraints' = IF c.kind = "Constraint"
                      THEN PushConstraint(constraints, c.val) ELSE constraints
    /\ objective' = IF c.kind = "Objective"
                    THEN SetObjective(objective, c.val) ELSE objective

\* the for loop handing each declaration to the Builder as it buckets it
BucketFeedingBuilder ==
    /\ pc = "bucket"
    /\ idx <= Len(components)
    /\ BucketComponent(components[idx])
    /\ calls' = IF components[idx].kind = "Variable"
                THEN Append(calls, Call("add_variable", components[idx].val))
                ELSE calls
    /\ idx' = idx + 1
    /\ UNCHANGED <<text, pc, components, err, parts, src, out, fpc>>

\* one iteration of `for c in components`
Bucket ==
    /\ pc = "bucket"
    /\ idx <= Len(components)
    /\ BucketComponent(components[idx])
    /\ idx' = idx + 1
    /\ UNCHANGED <<text, pc, components, err, calls, parts, src, out, fpc>>

BucketEnd ==
    /\ pc = "bucket"
    /\ idx > Len(components)
    /\ pc' = "finish"
    /\ UNCHANGED <<text, idx, components, variables, constraints, objective,
                   err, calls, parts, src, out, fpc>>

\* Components built with objective.unwrap_or(an empty objective)
FinishWithDefault ==
    /\ pc = "finish"
    /\ pc' = "add_variables"
    /\ idx' = 1
    /\ objective' = IF objective = <<>>
                    THEN <<[name |-> <<>>, variables |-> <<>>,
                            maximize |-> FALSE]>>
                    ELSE objective
    /\ UNCHANGED <<text, components, variables, constraints, err, calls,
                   parts, src, out, fpc>>

\* Components { .., objective: objective.expect(..) } and the return to
\* lp_from_text
Finish ==
    /\ pc = "finish"
    /\ IF objective = <<>>
       THEN /\ pc' = "panicked"
            /\ err' = "MissingObjective"
            /\ UNCHANGED idx
       ELSE /\ pc' = "add_variables"
            /\ idx' = 1
            /\ UNCHANGED err
    /\ UNCHANGED <<text, components, variables, constraints, objective,
                   calls, parts, src, out, fpc>>

\* for v in components.variables { builder.add_variable(v); }
AddVariable ==
    /\ pc = "add_variables"
    /\ idx <= Len(variables)
    /\ calls' = Append(calls, Call("add_variable", variables[idx]))
    /\ idx' = idx + 1
    /\ UNCHANGED <<text, pc, components, variables, constraints, objective,
                   err, parts, src, out, fpc>>

AddVariableEnd ==
    /\ pc = "add_variables"
    /\ idx > Len(variables)
    /\ pc' = "add_constraints"
    /\ idx' = 1
    /\ UNCHANGED <<text, components, variables, constraints, objective, err,
                   calls, parts, src, out, fpc>>

\* for c in components.constraints { builder.add_constraint(c); }
AddConstraint ==
    /\ pc = "add_constraints"
    /\ idx <= Len(constraints)
    /\ calls' = Append(calls, Call("add_constraint", constraints[idx]))
    /\ idx' = idx + 1
    /\ UNCHANGED <<text, pc, components, variables, constraints, objective,
                   err, parts, src, out, fpc>>

AddConstraintEnd ==
    /\ pc = "add_constraints"
    /\ idx > Len(constraints)
    /\ pc' = "add_objective"
    /\ UNCHANGED <<text, idx, components, variables, constraints, objective,
                   err, calls, parts, src, out, fpc>>

\* builder.add_objective(components.objective);
AddObjective ==
    /\ pc = "add_objective"
    /\ calls' = Append(calls, Call("add_objective", objective[1]))
    /\ pc' = "build"
    /\ UNCHANGED <<text, idx, components, variables, constraints, objective,
                   err, parts, src, out, fpc>>

\* builder.build_lp()
BuildLp ==
    /\ pc = "build"
    /\ calls' = Append(calls, Call("build_lp", <<>>))
    /\ pc' = "done"
    /\ UNCHANGED <<text, idx, components, variables, constraints, objective,
                   err, parts, src, out, fpc>>

Next ==
    \/ Collect
    \/ CollectEnd
    \/ Bucket
    \/ BucketEnd
    \/ Finish
    \/ AddVariable
    \/ AddVariableEnd
    \/ AddConstraint
    \/ AddConstraintEnd
    \/ AddObjective
    \/ BuildLp

Spec == Init /\ [][Next]_vars

(***************************************************************************)
(* Function specifications: parse_variable / parse_objective_vars applied  *)
(* to expressions written from TermPool, and parse_constraint applied to   *)
(* constraint statements written part by part.                             *)
(***************************************************************************)
MaxTerms == 3

NoCall ==
    /\ text = <<>>
    /\ pc = "idle"
    /\ idx = 0
    /\ components = <<>>
    /\ variables = <<>>
    /\ constraints = <<>>
    /\ objective = <<>>
    /\ err = ""
    /\ calls = <<>>

\* the terms as written: sign marker, coefficient literal (<<>> if omitted)
\* with the number it denotes, name, and whether blanks pad the markers
TermPool ==
    {[neg |-> FALSE, coeff |-> <<>>, mag |-> [num |-> 1, den |-> 1],
      name |-> <<"a">>, pad |-> FALSE],
     [neg |-> TRUE, coeff |-> <<>>, mag |-> [num |-> 1, den |-> 1],
      name |-> <<"a">>, pad |-> FALSE],
     [neg |-> FALSE, coeff |-> <<"3", ".", "5">>, mag |-> [num |-> 7, den |-> 2],
      name |-> <<"a">>, pad |-> FALSE],
     [neg |-> FALSE, coeff |-> <<"1", ".", "5">>, mag |-> [num |-> 3, den |-> 2],
      name |-> <<"b">>, pad |-> FALSE],
     [neg |-> TRUE, coeff |-> <<"0", ".", "5">>, mag |-> [num |-> 1, den |-> 2],
      name |-> <<"c">>, pad |-> FALSE],
     [neg |-> FALSE, coeff |-> <<>>, mag |-> [num |-> 1, den |-> 1],
      name |-> <<"b">>, pad |-> FALSE],
     [neg |-> TRUE, coeff |-> <<"2", ".">>, mag |-> [num |-> 2, den |-> 1],
      name |-> <<"b">>, pad |-> FALSE],
     [neg |-> TRUE, coeff |-> <<"1", "0">>, mag |-> [num |-> 10, den |-> 1],
      name |-> <<"c">>, pad |-> TRUE]}

Pad(t) == IF t.pad THEN <<" ">> ELSE <<>>

\* [-][coefficient*]name
TermText(t) ==
    (IF t.neg THEN <<"-">> \o Pad(t) ELSE <<>>)
    \o (IF t.coeff # <<>> THEN t.coeff \o Pad(t) \o <<"*">> \o Pad(t)
        ELSE <<>>)
    \o t.name

\* the terms joined by " + "
RECURSIVE JoinPlus(_)
JoinPlus(ts) ==
    IF Len(ts) = 1 THEN TermText(ts[1])
    ELSE TermText(ts[1]) \o <<" ", "+", " ">> \o JoinPlus(Tail(ts))

InitVars ==
    /\ parts \in UNION {[1..n -> TermPool] : n \in 1..MaxTerms}
    /\ src = JoinPlus(parts)
    /\ out = <<>>
    /\ fpc = "start"
    /\ NoCall

CallParseVariable ==
    /\ fpc = "start"
    /\ Len(parts) = 1
    /\ out' = [fn |-> "parse_variable", res |-> parse_variable(src)]
    /\ fpc' = "done"
    /\ UNCHANGED <<text, pc, idx, components, variables, constraints,
                   objective, err, calls, parts, src>>

CallParseObjectiveVars ==
    /\ fpc = "start"
    /\ out' = [fn |-> "parse_objective_vars", res |-> parse_objective_vars(src)]
    /\ fpc' = "done"
    /\ UNCHANGED <<text, pc, idx, components, variables, constraints,
                   objective, err, calls, parts, src>>

NextVars ==
    \/ CallParseVariable
    \/ CallParseObjectiveVars

SpecVars == InitVars /\ [][NextVars]_vars

\* the four parts of a constraint statement as written (<<>> if left out)
ConstraintNames == {<<>>, <<"c", "1">>, <<"b", "u", "d", "g", "e", "t">>}

ConstraintTermTexts ==
    {<<>>, <<"a">>,
     <<"2", "*", "a", " ", "+", " ", "-", "1", "*", "b">>}

ConstraintTypes == {<<>>, <<"<", "=">>, <<">", "=">>, <<"=", "=">>}

ConstraintConstants == {<<>>, <<"1">>, <<"1", "0", ".", "5">>}

\* subject to <name>: <terms> <op> <constant>
ConstraintText(c) ==
    KwSubjectTo \o <<" ">> \o c.name \o <<":", " ">> \o c.terms \o <<" ">>
    \o c.type \o <<" ">> \o c.constant

InitConstraint ==
    /\ parts \in [name : ConstraintNames, terms : ConstraintTermTexts,
                  type : ConstraintTypes, constant : ConstraintConstants]
    /\ src = ConstraintText(parts)
    /\ out = <<>>
    /\ fpc = "start"
    /\ NoCall

CallParseConstraint ==
    /\ fpc = "start"
    /\ out' = [fn |-> "parse_constraint", res |-> parse_constraint(src)]
    /\ fpc' = "done"
    /\ UNCHANGED <<text, pc, idx, components, variables, constraints,
                   objective, err, calls, parts, src>>

NextConstraint == CallParseConstraint

SpecConstraint == InitConstraint /\ [][NextConstraint]_vars

(***************************************************************************)
(* What the properties speak of                                            *)
(***************************************************************************)
\* .map(|line| line.trim()) over the segments
TrimAll(segs) == [i \in 1..Len(segs) |-> Trim(segs[i])]

NonEmpty(line) == Len(line) > 0

\* the statements of a document: its trimmed, non-empty segments, in order
Statements(t) == SelectSeq(TrimAll(Segments(t)), NonEmpty)

KindOfResult(r) == IF r.ok THEN r.type ELSE "Unknown"

\* the kind get_line_type gives a statement, "Unknown" when it panics
LineKind(line) == KindOfResult(get_line_type(line))

\* the statements among S of kind k, in order
OfKindIn(S, k) ==
    LET IsK(line) == LineKind(line) = k
    IN  SelectSeq(S, IsK)

\* the statements of a document of kind k, in document order
OfKind(t, k) == OfKindIn(Statements(t), k)

\* the records parsed from statements, in order
ParsedSeq(lines) ==
    [i \in 1..Len(lines) |-> component_from_line(lines[i]).val]

\* the records parsed from the statements of kind k, in document order
ParsedOf(t, k) == ParsedSeq(OfKind(t, k))

Last(seq) == seq[Len(seq)]

\* every statement among S parses on its own
AllParseIn(S) == \A i \in 1..Len(S) : component_from_line(S[i]).ok

\* no statement among S is classified Objective
NoObjectiveIn(S) == \A i \in 1..Len(S) : LineKind(S[i]) # "Objective"

\* get_components has returned a Components value
Returned == pc \in {"add_variables", "add_constraints", "add_objective",
                    "build", "done"}

\* the moment get_components returns its Components value
JustReturned == pc = "add_variables" /\ idx = 1 /\ calls = <<>>

\* the moment collect() returns
JustCollected == pc = "bucket" /\ idx = 1

\* the parse was aborted at a statement (idx is left on its segment)
FailedAtLine == pc = "panicked" /\ err # "MissingObjective"

\* the statement the parse was aborted at
FailedLine == Trim(Segments(text)[idx])

\* the iterator chain is about to take segment idx
AtSegment == pc = "collect" /\ idx <= Len(Segments(text))

IsPrefix(s, t) == Len(s) <= Len(t) /\ SubSeq(t, 1, Len(s)) = s

(***************************************************************************)
(* C1                                                                      *)
(***************************************************************************)
\* C1: the Components value get_components returns for a document with
\* exactly one statement classified Objective holds in `constraints` exactly
\* the records of the statements classified Constraint, in document order,
\* and in `objective` the record parsed from the sole objective statement.
C1_OneObjective ==
    (JustReturned /\ Len(OfKind(text, "Objective")) = 1)
        => /\ Len(constraints) = Len(OfKind(text, "Constraint"))
           /\ constraints = ParsedOf(text, "Constraint")
           /\ objective = ParsedOf(text, "Objective")

\* a returned parse of one objective and two different constraints
C1_Witness ==
    /\ JustReturned
    /\ Len(OfKind(text, "Objective")) = 1
    /\ Len(constraints) = 2
    /\ constraints[1] # constraints[2]

(***************************************************************************)
(* C3                                                                      *)
(***************************************************************************)
\* the first of the four markers, in priority order, that occurs in the text
FirstMarker(line) ==
    IF \E p \in 1..Len(line) : line[p] = "#" THEN "Comment"
    ELSE IF \E p \in 1..Len(line) : StartsWithAt(line, p, KwVar)
    THEN "Variable"
    ELSE IF \E p \in 1..Len(line) :
                \/ StartsWithAt(line, p, KwMinimize)
                \/ StartsWithAt(line, p, KwMaximize)
    THEN "Objective"
    ELSE IF \E p \in 1..Len(line) : StartsWithAt(line, p, KwSubjectTo)
    THEN "Constraint"
    ELSE "Unknown"

\* the statements among S that have a comment marker
WithComment(S) ==
    LET HasComment(line) == \E p \in 1..Len(line) : line[p] = "#"
    IN  SelectSeq(S, HasComment)

\* C3: every statement handed to get_line_type is classified by the first
\* of # / var / minimize or maximize / subject to that occurs anywhere in
\* it, and a statement with the comment marker adds nothing to what is
\* collected: when collect() returns, `components` has one entry per
\* statement without the marker, and the Components value returned holds one
\* variable per Declaration statement and one constraint per Constraint
\* statement.
C3_Priority ==
    /\ (AtSegment \/ FailedAtLine)
          => \/ Len(FailedLine) = 0
             \/ LineKind(FailedLine) = FirstMarker(FailedLine)
    /\ JustCollected
          => Len(components)
                = Len(Statements(text)) - Len(WithComment(Statements(text)))
    /\ JustReturned
          => /\ Len(variables) = Len(OfKind(text, "Variable"))
             /\ Len(constraints) = Len(OfKind(text, "Constraint"))

\* a returned parse of a document with a comment that holds an objective,
\* which did not become the objective
C3_Witness ==
    /\ JustReturned
    /\ \E i \in 1..Len(Statements(text)) :
          /\ Contains(Statements(text)[i], <<"#">>)
          /\ Contains(Statements(text)[i], KwMaximize)
    /\ objective[1].maximize = FALSE

(***************************************************************************)
(* C4                                                                      *)
(***************************************************************************)
\* the name a statement captures is one containing var
VarInName(caps) == caps.ok /\ Contains(caps.name, KwVar)

\* a statement of the shape subject to <name>: <terms> <op> <constant> whose
\* name contains var
VarNamedConstraint(line) ==
    /\ StartsWithAt(line, 1, KwSubjectTo)
    /\ ~Contains(line, <<"#">>)
    /\ VarInName(constraint_regex(line))

\* the statements among S that are constraints with var in the name
VarNamedIn(S) == SelectSeq(S, VarNamedConstraint)

\* C4 as claimed: a constraint statement whose name contains var is not what
\* the parse fails at, and when collect() returns it is one of the collected
\* constraints.
C4_AsClaimed ==
    /\ FailedAtLine => ~VarNamedConstraint(FailedLine)
    /\ JustCollected
          => \A i \in 1..Len(VarNamedIn(Statements(text))) :
                \E j \in 1..Len(components) :
                    /\ components[j].kind = "Constraint"
                    /\ components[j].val.name
                          = constraint_regex(VarNamedIn(Statements(text))[i]).name

\* C4 amended: a constraint statement whose name contains var is classified
\* Declaration, because var outranks subject to; it never becomes an entry of
\* `constraints`, and the parse aborts at it with UnmatchedPattern unless the
\* statement holds var followed by blanks and an identifier.
C4_ClassifiedDeclaration ==
    /\ ((AtSegment \/ FailedAtLine) /\ VarNamedConstraint(FailedLine))
          => LineKind(FailedLine) = "Variable"
    /\ \A i \in 1..Len(components) :
          components[i].kind = "Constraint"
              => ~Contains(components[i].val.name, KwVar)
    /\ \A i \in 1..Len(constraints) : ~Contains(constraints[i].name, KwVar)
    /\ (FailedAtLine /\ VarNamedConstraint(FailedLine))
          => err = "UnmatchedPattern"
    /\ JustCollected
          => \A i \in 1..Len(VarNamedIn(Statements(text))) :
                variable_declaration_regex(VarNamedIn(Statements(text))[i]).ok

\* the parse aborted at a constraint statement whose name contains var
C4_Witness ==
    /\ FailedAtLine
    /\ err = "UnmatchedPattern"
    /\ idx > 1
    /\ VarNamedConstraint(FailedLine)

(***************************************************************************)
(* C5                                                                      *)
(***************************************************************************)
\* no statement of the document is classified Objective and every statement
\* parses on its own
ObjectiveMissing(t) ==
    NoObjectiveIn(Statements(t)) /\ AllParseIn(Statements(t))

\* C5: for a document none of whose statements is classified Objective and
\* all of whose statements parse, get_components does not return; it is
\* still without an objective when it builds Components, and the panic that
\* ends it is MissingObjective, raised after every statement has been
\* collected and put in its bucket.
C5_MissingObjective ==
    /\ JustReturned => ~ObjectiveMissing(text)
    /\ (pc = "finish" /\ ObjectiveMissing(text)) => objective = <<>>
    /\ (pc = "panicked" /\ ObjectiveMissing(text))
          => /\ err = "MissingObjective"
             /\ Len(components)
                   = Len(Statements(text)) - Len(OfKind(text, "Comment"))
             /\ variables = ParsedOf(text, "Variable")
             /\ constraints = ParsedOf(text, "Constraint")

\* MissingObjective after a declaration and a constraint were bucketed
C5_Witness ==
    /\ pc = "panicked"
    /\ err = "MissingObjective"
    /\ Len(variables) >= 1
    /\ Len(constraints) >= 1

(***************************************************************************)
(* C6                                                                      *)
(***************************************************************************)
\* a statement without any of the four markers
NoMarker(line) == FirstMarker(line) = "Unknown"

\* a statement among S has none of the four markers
HasUnknownIn(S) == \E i \in 1..Len(S) : NoMarker(S[i])

\* the document has a statement without any of the four markers
HasUnknown(t) == HasUnknownIn(Statements(t))

\* every statement among S before the first one without a marker parses
ParsesUpToUnknownIn(S) ==
    \A i \in 1..Len(S) :
        (\A j \in 1..i : ~NoMarker(S[j])) => component_from_line(S[i]).ok

\* C6 as claimed: with a statement that has none of the four markers, the
\* parse returns nothing and the failure is MalformedStatement, whatever the
\* other statements are.
C6_AsClaimed ==
    /\ JustReturned => ~HasUnknown(text)
    /\ (pc = "panicked" /\ err # "MalformedStatement") => ~HasUnknown(text)

\* C6 amended: with a statement that has none of the four markers collect()
\* does not return and no Components value is returned; no such statement is
\* passed over, only empty segments and statements with a marker are; the
\* failure is MalformedStatement exactly when the parse is aborted at such a
\* statement, which it is when every statement before it parses, and
\* otherwise it is the failure of the earlier statement that does not parse.
C6_NeverSkipped ==
    /\ (JustCollected \/ JustReturned) => ~HasUnknown(text)
    /\ (pc = "panicked" /\ err = "MissingObjective") => ~HasUnknown(text)
    /\ (pc = "panicked" /\ err # "MalformedStatement" /\ HasUnknown(text))
          => ~ParsesUpToUnknownIn(Statements(text))
    /\ ((pc = "collect" \/ FailedAtLine) /\ idx > 1)
          => \/ Len(Trim(Segments(text)[idx - 1])) = 0
             \/ ~NoMarker(Trim(Segments(text)[idx - 1]))
    /\ FailedAtLine => (NoMarker(FailedLine) <=> err = "MalformedStatement")

\* MalformedStatement at a statement that is not the first segment
C6_Witness ==
    /\ FailedAtLine
    /\ err = "MalformedStatement"
    /\ idx > 1
    /\ NoMarker(FailedLine)
    /\ Len(components) >= 1

(***************************************************************************)
(* C8                                                                      *)
(***************************************************************************)
\* C8: the Components value get_components returns for a document with more
\* than one objective statement holds in `objective` the record of the last
\* of them, and in `variables` and `constraints` exactly the records of the
\* declaration and constraint statements, which no objective statement
\* changes.
C8_LastObjectiveWins ==
    (JustReturned /\ Len(OfKind(text, "Objective")) >= 2)
        => /\ objective = <<Last(ParsedOf(text, "Objective"))>>
           /\ variables = ParsedOf(text, "Variable")
           /\ constraints = ParsedOf(text, "Constraint")

\* a returned parse of two different objectives and something else
C8_Witness ==
    /\ JustReturned
    /\ Len(OfKind(text, "Objective")) = 2
    /\ ParsedOf(text, "Objective")[1] # ParsedOf(text, "Objective")[2]
    /\ Len(variables) + Len(constraints) >= 1

(***************************************************************************)
(* C10                                                                     *)
(***************************************************************************)
\* add_variable per variable, add_constraint per constraint, add_objective,
\* build_lp
CallsFor(vs, cs, obj) ==
    [i \in 1..Len(vs) |-> Call("add_variable", vs[i])]
    \o [i \in 1..Len(cs) |-> Call("add_constraint", cs[i])]
    \o <<Call("add_objective", obj), Call("build_lp", <<>>)>>

\* the calls lp_from_text owes the Builder for a document that parses
ExpectedCalls(t) ==
    CallsFor(ParsedOf(t, "Variable"), ParsedOf(t, "Constraint"),
             Last(ParsedOf(t, "Objective")))

\* C10: the Builder receives no call before the document has parsed and none
\* at all when the parse fails; after that its calls are at every moment a
\* prefix of add_variable per variable, add_constraint per constraint,
\* add_objective, build_lp, with build_lp still to come while pc = "build";
\* and when lp_from_text is done the Builder has received exactly one
\* add_variable per declaration of the document in document order, one
\* add_constraint per constraint in document order, one add_objective and,
\* last, build_lp.
C10_BuilderOrder ==
    /\ ~Returned => calls = <<>>
    /\ Returned => IsPrefix(calls, CallsFor(variables, constraints, objective[1]))
    /\ pc = "build" => Len(calls) = Len(variables) + Len(constraints) + 1
    /\ pc = "done" => calls = ExpectedCalls(text)

\* lp_from_text done after a declaration, a constraint and the objective
C10_Witness ==
    /\ pc = "done"
    /\ Len(variables) >= 1
    /\ Len(constraints) >= 1
    /\ calls[Len(calls)].op = "build_lp"
    /\ calls[Len(calls) - 1].op = "add_objective"

(***************************************************************************)
(* C2, C7 (under SpecVars)                                                 *)
(***************************************************************************)
\* the entries a call returned
Entries ==
    IF out.fn = "parse_variable" THEN <<out.res.val>> ELSE out.res.val

\* magnitude x sign of a term as written
WrittenCoefficient(t) ==
    MulSign(IF t.coeff = <<>> THEN F64(1) ELSE t.mag,
            IF t.neg THEN -1 ELSE 1)

\* C2: every term handed to parse_variable is stored with its name and with
\* the coefficient magnitude x sign, the sign being -1 with a leading "-" and
\* 1 without, the magnitude the written coefficient or 1 when it is omitted.
C2_SignedCoefficient ==
    fpc = "done"
        => /\ out.res.ok
           /\ \A i \in 1..Len(parts) :
                 /\ Entries[i].name = parts[i].name
                 /\ Entries[i].coefficient = WrittenCoefficient(parts[i])

\* C7: parse_objective_vars of k terms joined by + returns k entries, the
\* i-th being the name of the i-th term as written and the record
\* parse_variable gives for that term alone; equal names stay apart.
C7_OrderPreserved ==
    (fpc = "done" /\ out.fn = "parse_objective_vars")
        => /\ out.res.ok
           /\ Len(out.res.val) = Len(parts)
           /\ \A i \in 1..Len(parts) :
                 /\ out.res.val[i].name = parts[i].name
                 /\ out.res.val[i] = parse_variable(TermText(parts[i])).val

\* "3.5*a + 1.5*b + -0.5*c" parsed to [{a,3.5},{b,1.5},{c,-0.5}]
C7_Witness ==
    /\ fpc = "done"
    /\ out.fn = "parse_objective_vars"
    /\ src = <<"3", ".", "5", "*", "a", " ", "+", " ", "1", ".", "5", "*",
               "b", " ", "+", " ", "-", "0", ".", "5", "*", "c">>
    /\ out.res.val
          = <<[name |-> <<"a">>, coefficient |-> [num |-> 7, den |-> 2]],
              [name |-> <<"b">>, coefficient |-> [num |-> 3, den |-> 2]],
              [name |-> <<"c">>, coefficient |-> [num |-> -1, den |-> 2]]>>

(***************************************************************************)
(* C9 (under SpecConstraint)                                               *)
(***************************************************************************)
\* C9: parse_constraint panics whenever the name, the terms, the relational
\* operator or the constant is missing from the statement.
C9_FailsOnMissingPart ==
    (/\ fpc = "done"
     /\ \/ parts.name = <<>>
        \/ parts.terms = <<>>
        \/ parts.type = <<>>
        \/ parts.constant = <<>>)
        => ~out.res.ok

====
